---- MODULE Spec2Model ----
(***************************************************************************)
(* Model of eps_to_versaworks.py: the EPS rewriting passes of              *)
(* EPSToVersaworksConverter (header annotation, prolog injection, stroke   *)
(* rewriting), the print/cut merge, the SVG layer split and the steps of  *)
(* convert.                                                                *)
(*                                                                         *)
(* Text is a sequence of atoms.  An atom is an indivisible piece of text:  *)
(* one whitespace character (" ", "\t"), the line break "\n", or a maximal *)
(* piece of non-blank text such as "S", "0.5", "%%Page:".  A document is   *)
(* the concatenation of its atoms, so str.split, str.find, substring tests *)
(* and the regular expressions of the program are modelled by what they do *)
(* on the characters the atoms stand for.                                  *)
(***************************************************************************)
EXTENDS Integers, Sequences, FiniteSets, TLC

VARIABLES
    content,        \* the document text a pass works on (convert's `content`)
    prev,           \* the document text handed to the last pass
    calls,          \* names of the passes applied so far, in order
    stroke_width,   \* self.stroke_width, as the text the f-string prints
    print_content,  \* text of the print EPS given to merge_eps_files
    cut_content,    \* text of the cut EPS given to merge_eps_files
    rewrite_log,    \* one record per line read by the last stroke rewrite
    output_file,    \* text written to output_path, NoFile while not written
    merge_result,   \* what merge_eps_files returned: "True", "False"; "none" before
    svg,            \* the drawing at original_input_file (NoSvg: not a drawing)
    eps_file,       \* text of the file at self.input_file, NoFile while missing
    is_svg_input,   \* self.is_svg_input
    convert_everything, \* self.convert_everything
    has_cut_layer,  \* self.has_cut_layer
    cut_svg,        \* the cut-only drawing written by the layer split
    print_svg,      \* the print-only drawing written by the layer split
    exports,        \* the calls of convert_svg_to_eps so far: [doc, ok]
    response,       \* the answer read by input(), "none" while not asked
    pc,             \* where the run is: construction, then the steps of convert
    result          \* what convert returned: "True", "False", "exit"; "none" before

\* the state of a conversion run
convertVars == <<svg, eps_file, is_svg_input, convert_everything,
                 has_cut_layer, cut_svg, print_svg, exports, response, pc,
                 result>>

vars == <<content, prev, calls, rewrite_log, stroke_width, print_content,
          cut_content, output_file, merge_result, convertVars>>

-----------------------------------------------------------------------------
(* Bounds of the model.                                                    *)

\* longest header document (lines) drawn for the Header Annotator
MaxHeaderLines == 6
\* longest page document (lines) drawn for the Stroke Rewriter
MaxPageLines == 3
\* longest document (lines) drawn for the Prolog Injector
MaxPrologLines == 3
\* most passes applied to one document
MaxCalls == 2
\* most drawing lines in the page body of a document to merge
MaxBodyLines == 2
\* most top-level elements of a drawing
MaxTop == 2
\* most lines after the start marker in a document given to the three passes
MaxPipelineLines == 3

-----------------------------------------------------------------------------
(* Program constants.                                                      *)

\* CUTCONTOUR_CMYK = (0, 100, 0, 0), percentages
CUTCONTOUR_CMYK == <<0, 100, 0, 0>>

\* HAIRLINE_WIDTH = 0.25, as str() prints it
HAIRLINE_WIDTH == "0.25"

\* lines[i:i+5]: the look-ahead window of add_header_definitions
LookAhead == 5

NL == "\n"
NoFile == <<"<no file>">>

-----------------------------------------------------------------------------
(* Text primitives.                                                        *)

Min(a, b) == IF a < b THEN a ELSE b

\* \s inside one line (a line holds no "\n" after split)
IsSpace(a) == a \in {" ", "\t"}

\* \s in a multi-line text
IsWhite(a) == IsSpace(a) \/ a = NL

\* atoms that are a run of the characters [\d.]
NumAtoms == {"0", "1", "2", "3", "4", "5", "10", "20", "30", "40", "100",
             "0.5", "1.5", "0.25", "0.0", "1.0", "0.00", "1.00", ".5"}

IsNum(a) == a \in NumAtoms

\* str.split('\n')
RECURSIVE SplitLines(_)
SplitLines(s) ==
    IF \A i \in 1..Len(s) : s[i] # NL
    THEN <<s>>
    ELSE LET k == CHOOSE i \in 1..Len(s) :
                      s[i] = NL /\ \A j \in 1..(i - 1) : s[j] # NL
         IN  <<SubSeq(s, 1, k - 1)>> \o SplitLines(SubSeq(s, k + 1, Len(s)))

\* '\n'.join(lines)
RECURSIVE JoinLines(_)
JoinLines(lines) ==
    IF Len(lines) = 0 THEN <<>>
    ELSE IF Len(lines) = 1 THEN lines[1]
    ELSE lines[1] \o <<NL>> \o JoinLines(Tail(lines))

\* sub in line, for a marker that is one atom of the text
Contains(line, marker) == \E i \in 1..Len(line) : line[i] = marker

\* line.startswith(marker)
StartsWith(line, marker) == Len(line) >= 1 /\ line[1] = marker

\* str.find: index of the first occurrence, 0 for Python's -1
Find(s, marker) ==
    IF Contains(s, marker)
    THEN CHOOSE i \in 1..Len(s) :
             s[i] = marker /\ \A j \in 1..(i - 1) : s[j] # marker
    ELSE 0

\* f'{v:.2f}' of v/100.0
Fmt2(v) == CASE v = 0 -> "0.00" [] v = 100 -> "1.00"

\* f'{v}' of the float v/100.0
FmtFloat(v) == CASE v = 0 -> "0.0" [] v = 100 -> "1.0"

-----------------------------------------------------------------------------
(* Header Annotator: add_header_definitions.                               *)

DCCLine == <<"%%DocumentCustomColors:", " ", "(CutContour)">>

CMYKLine == <<"%%CMYKCustomColor:", " ", Fmt2(CUTCONTOUR_CMYK[1]), " ",
              Fmt2(CUTCONTOUR_CMYK[2]), " ", Fmt2(CUTCONTOUR_CMYK[3]), " ",
              Fmt2(CUTCONTOUR_CMYK[4]), " ", "(CutContour)">>

\* line.startswith(('%%BoundingBox:', '%%LanguageLevel:'))
IsHeaderAnchor(line) ==
    StartsWith(line, "%%BoundingBox:") \/ StartsWith(line, "%%LanguageLevel:")

\* any('%%DocumentCustomColors:' in t for t in lines[i:i+5]), i 1-based
DeclaredAhead(lines, i) ==
    \E j \in i..Min(i + LookAhead - 1, Len(lines)) :
        Contains(lines[j], "%%DocumentCustomColors:")

\* the for loop of add_header_definitions from line i on
RECURSIVE HeaderLoop(_, _, _, _)
HeaderLoop(lines, i, added, new_lines) ==
    IF i > Len(lines) THEN new_lines
    ELSE LET line == lines[i]
             ins  == ~added /\ IsHeaderAnchor(line) /\ ~DeclaredAhead(lines, i)
         IN  HeaderLoop(lines, i + 1, added \/ ins,
                        IF ins
                        THEN new_lines \o <<line, DCCLine, CMYKLine>>
                        ELSE Append(new_lines, line))

add_header_definitions(c) ==
    JoinLines(HeaderLoop(SplitLines(c), 1, FALSE, <<>>))

-----------------------------------------------------------------------------
(* Regular expressions of replace_stroke_commands.  A pattern is a         *)
(* sequence of elements; an element is a set of atoms with a repetition:   *)
(* "1" exactly one, "*" zero or more, "+" one or more.                     *)

One(S)  == [set |-> S, rep |-> "1"]
Star(S) == [set |-> S, rep |-> "*"]
Plus(S) == [set |-> S, rep |-> "+"]

SpaceAtoms == {" ", "\t"}

\* re.match(r'^...$', line): the whole line matches the pattern
RECURSIVE FullMatch(_, _)
FullMatch(pat, s) ==
    IF Len(pat) = 0 THEN Len(s) = 0
    ELSE LET e    == Head(pat)
             rest == Tail(pat)
             hit  == Len(s) > 0 /\ Head(s) \in e.set
         IN  CASE e.rep = "1" -> hit /\ FullMatch(rest, Tail(s))
               [] e.rep = "*" -> FullMatch(rest, s)
                                 \/ (hit /\ FullMatch(pat, Tail(s)))
               [] e.rep = "+" -> hit /\ FullMatch(<<Star(e.set)>> \o rest,
                                                  Tail(s))

\* r'^\s*[\d.]+\s+[\d.]+\s+[\d.]+\s+(rg|setrgbcolor)\s*$'
RgbPattern ==
    <<Star(SpaceAtoms), Plus(NumAtoms), Plus(SpaceAtoms), Plus(NumAtoms),
      Plus(SpaceAtoms), Plus(NumAtoms), Plus(SpaceAtoms),
      One({"rg", "setrgbcolor"}), Star(SpaceAtoms)>>

\* r'^\s*[\d.]+\s+[\d.]+\s+[\d.]+\s+[\d.]+\s+setcmykcolor\s*$'
CmykPattern ==
    <<Star(SpaceAtoms), Plus(NumAtoms), Plus(SpaceAtoms), Plus(NumAtoms),
      Plus(SpaceAtoms), Plus(NumAtoms), Plus(SpaceAtoms), Plus(NumAtoms),
      Plus(SpaceAtoms), One({"setcmykcolor"}), Star(SpaceAtoms)>>

\* GrayPattern that knows 'setgray' only
GrayPatternLongOnly ==
    <<Star(SpaceAtoms), Plus(NumAtoms), Plus(SpaceAtoms),
      One({"setgray"}), Star(SpaceAtoms)>>

\* r'^\s*[\d.]+\s+(g|setgray)\s*$'
GrayPattern ==
    <<Star(SpaceAtoms), Plus(NumAtoms), Plus(SpaceAtoms),
      One({"g", "setgray"}), Star(SpaceAtoms)>>

\* r'^\s*[\d.]+\s+(w|setlinewidth)\s*$'
WidthPattern ==
    <<Star(SpaceAtoms), Plus(NumAtoms), Plus(SpaceAtoms),
      One({"w", "setlinewidth"}), Star(SpaceAtoms)>>

\* (S|stroke)
StrokeTokens == {"S", "stroke"}

\* StandalonePattern without the trailing \s*
StandaloneNoTrailingBlank == <<Star(SpaceAtoms), One(StrokeTokens)>>

\* r'^\s*(S|stroke)\s*$'
StandalonePattern ==
    <<Star(SpaceAtoms), One(StrokeTokens), Star(SpaceAtoms)>>

\* re.search(r'\s(S|stroke)(\s|$)', line)
HasInlineStroke(line) ==
    \E i \in 1..(Len(line) - 1) :
        /\ IsSpace(line[i])
        /\ line[i + 1] \in StrokeTokens
        /\ (i + 1 = Len(line) \/ IsSpace(line[i + 2]))

\* the replacement text 'SetCutContourStroke SetHairlineStroke '
Activation == <<"SetCutContourStroke", " ", "SetHairlineStroke", " ">>

\* re.sub(r'(\s)(S|stroke)(\s)', r'\1SetCutContourStroke SetHairlineStroke \2\3', line)
\* from position i on: matches are taken left to right and do not overlap
RECURSIVE SubMid(_, _)
SubMid(line, i) ==
    IF i > Len(line) THEN <<>>
    ELSE IF /\ i + 2 <= Len(line)
            /\ IsSpace(line[i])
            /\ line[i + 1] \in StrokeTokens
            /\ IsSpace(line[i + 2])
         THEN <<line[i]>> \o Activation \o <<line[i + 1], line[i + 2]>>
              \o SubMid(line, i + 3)
         ELSE <<line[i]>> \o SubMid(line, i + 1)

\* SubEnd without the end-of-line case
SubEndNoLineEnd(line) == line

\* re.sub(r'(\s)(S|stroke)$', r'\1SetCutContourStroke SetHairlineStroke \2', line)
SubEnd(line) ==
    LET n == Len(line)
    IN  IF n >= 2 /\ IsSpace(line[n - 1]) /\ line[n] \in StrokeTokens
        THEN SubSeq(line, 1, n - 1) \o Activation \o <<line[n]>>
        ELSE line

-----------------------------------------------------------------------------
(* Stroke Rewriter: replace_stroke_commands.                               *)

\* '%%Page:' in line or '%%BeginPageSetup' in line
IsPageStart(line) ==
    Contains(line, "%%Page:") \/ Contains(line, "%%BeginPageSetup")

\* IsPageEnd that forgets '%%EOF'
IsPageEndTrailerOnly(line) == Contains(line, "%%Trailer")

\* '%%Trailer' in line or '%%EOF' in line
IsPageEnd(line) == Contains(line, "%%Trailer") \/ Contains(line, "%%EOF")

\* value of in_page after the loop body has read line
NextInPage(line, in_page) ==
    IF IsPageStart(line) THEN TRUE
    ELSE IF IsPageEnd(line) THEN FALSE
    ELSE in_page

\* Emit without the in_page test: lines outside the page are rewritten too
EmitEverywhere(line, in_page) ==
    IF IsPageStart(line) THEN <<line>>
    ELSE IF IsPageEnd(line) THEN <<line>>
    ELSE IF FullMatch(RgbPattern, line) THEN <<>>
    ELSE IF FullMatch(CmykPattern, line) THEN <<>>
    ELSE IF FullMatch(GrayPattern, line) THEN <<>>
    ELSE IF FullMatch(WidthPattern, line) THEN <<<<"SetHairlineStroke">>>>
    ELSE IF HasInlineStroke(line) THEN <<SubEnd(SubMid(line, 1))>>
    ELSE IF FullMatch(StandalonePattern, line)
         THEN <<<<"SetCutContourStroke">>, <<"SetHairlineStroke">>, line>>
    ELSE <<line>>

\* the lines one pass of the loop body appends to new_lines
Emit(line, in_page) ==
    IF IsPageStart(line) THEN <<line>>
    ELSE IF IsPageEnd(line) THEN <<line>>
    ELSE IF ~in_page THEN <<line>>
    ELSE IF FullMatch(RgbPattern, line) THEN <<>>
    ELSE IF FullMatch(CmykPattern, line) THEN <<>>
    ELSE IF FullMatch(GrayPattern, line) THEN <<>>
    ELSE IF FullMatch(WidthPattern, line) THEN <<<<"SetHairlineStroke">>>>
    ELSE IF HasInlineStroke(line) THEN <<SubEnd(SubMid(line, 1))>>
    ELSE IF FullMatch(StandalonePattern, line)
         THEN <<<<"SetCutContourStroke">>, <<"SetHairlineStroke">>, line>>
    ELSE <<line>>

\* the for loop of replace_stroke_commands from line i on; every pass is
\* recorded as the line read, the flag it was read under and what it emitted
RECURSIVE ReplaceLoop(_, _, _, _)
ReplaceLoop(lines, i, in_page, log) ==
    IF i > Len(lines) THEN log
    ELSE ReplaceLoop(lines, i + 1, NextInPage(lines[i], in_page),
                     Append(log, [line    |-> lines[i],
                                  in_page |-> in_page,
                                  out     |-> Emit(lines[i], in_page)]))

\* new_lines: the emitted lines of all passes, in order
RECURSIVE NewLines(_)
NewLines(log) ==
    IF Len(log) = 0 THEN <<>> ELSE Head(log).out \o NewLines(Tail(log))

\* the loop started with in_page = True
ReplaceLogInPage(c) == ReplaceLoop(SplitLines(c), 1, TRUE, <<>>)

\* in_page = False, then the loop
ReplaceLog(c) == ReplaceLoop(SplitLines(c), 1, FALSE, <<>>)

replace_stroke_commands(c) == JoinLines(NewLines(ReplaceLog(c)))

-----------------------------------------------------------------------------
(* Prolog Injector: add_spot_color_support.                                *)

\* the lines of the f-string spot_color_code, sw the text of {self.stroke_width}
SpotColorCodeLines(sw) ==
  << <<>>,
     <<"%", " ", "CutContour", " ", "Spot", " ", "Color", " ", "Support", " ", "(PostScript", " ", "Level", " ", "2)">>,
     <<"%", " ", "Use", " ", "findcmykcustomcolor", " ", "and", " ", "setcustomcolor", " ", "for", " ", "spot", " ", "color", " ", "definition">>,
     <<>>,
     <<"%", " ", "Check", " ", "if", " ", "spot", " ", "color", " ", "operators", " ", "are", " ", "available,", " ", "define", " ", "if", " ", "not">>,
     <<"/findcmykcustomcolor", " ", "where", " ", "{">>,
     <<" ", " ", "pop", " ", " ", "%", " ", "Operator", " ", "exists,", " ", "use", " ", "it">>,
     <<"}", " ", "{">>,
     <<" ", " ", "%", " ", "Fallback", " ", "definition", " ", "for", " ", "Level", " ", "1", " ", "or", " ", "if", " ", "not", " ", "available">>,
     <<" ", " ", "/findcmykcustomcolor", " ", "{">>,
     <<" ", " ", " ", " ", "5", " ", "array", " ", "astore", " ", " ", "%", " ", "Store", " ", "C,", " ", "M,", " ", "Y,", " ", "K,", " ", "name", " ", "as", " ", "array">>,
     <<" ", " ", "}", " ", "def">>,
     <<"}", " ", "ifelse">>,
     <<>>,
     <<"/setcustomcolor", " ", "where", " ", "{">>,
     <<" ", " ", "pop", " ", " ", "%", " ", "Operator", " ", "exists,", " ", "use", " ", "it">>,
     <<"}", " ", "{">>,
     <<" ", " ", "%", " ", "Fallback:", " ", "convert", " ", "to", " ", "CMYK">>,
     <<" ", " ", "/setcustomcolor", " ", "{">>,
     <<" ", " ", " ", " ", "exch", " ", "aload", " ", "pop", " ", "pop", " ", " ", "%", " ", "Get", " ", "C,", " ", "M,", " ", "Y,", " ", "K", " ", "from", " ", "array", " ", "(discard", " ", "name)">>,
     <<" ", " ", " ", " ", "4", " ", "{">>,
     <<" ", " ", " ", " ", " ", " ", "4", " ", "index", " ", "mul", " ", "4", " ", "1", " ", "roll", " ", " ", "%", " ", "Multiply", " ", "each", " ", "component", " ", "by", " ", "tint", " ", "value">>,
     <<" ", " ", " ", " ", "}", " ", "repeat">>,
     <<" ", " ", " ", " ", "5", " ", "-1", " ", "roll", " ", "pop", " ", " ", "%", " ", "Remove", " ", "tint", " ", "value">>,
     <<" ", " ", " ", " ", "setcmykcolor">>,
     <<" ", " ", "}", " ", "def">>,
     <<"}", " ", "ifelse">>,
     <<>>,
     <<"%", " ", "Define", " ", "the", " ", "CutContour", " ", "spot", " ", "color">>,
     <<"%", " ", "Format:", " ", "C", " ", "M", " ", "Y", " ", "K", " ", "(ColorName)", " ", "findcmykcustomcolor">>,
     <<"/CutContourColor", " ", "{">>,
     <<" ", " ", FmtFloat(CUTCONTOUR_CMYK[1]), " ", FmtFloat(CUTCONTOUR_CMYK[2]), " ", FmtFloat(CUTCONTOUR_CMYK[3]), " ", FmtFloat(CUTCONTOUR_CMYK[4]), " ", "(CutContour)", " ", "findcmykcustomcolor">>,
     <<"}", " ", "def">>,
     <<>>,
     <<"%", " ", "Set", " ", "CutContour", " ", "for", " ", "stroking", " ", "with", " ", "full", " ", "tint", " ", "(100%)">>,
     <<"/SetCutContourStroke", " ", "{">>,
     <<" ", " ", "CutContourColor", " ", "1.0", " ", "setcustomcolor">>,
     <<"}", " ", "def">>,
     <<>>,
     <<"%", " ", "Set", " ", "hairline", " ", "stroke", " ", "width", " ", " ">>,
     <<"/SetHairlineStroke", " ", "{">>,
     <<" ", " ", sw, " ", "setlinewidth">>,
     <<"}", " ", "def">>,
     <<>>,
     <<>> >>

\* spot_color_code
SpotColorCode(sw) == JoinLines(SpotColorCodeLines(sw))

\* add_spot_color_support that looks for '%%BeginSetup' first
add_spot_color_support_setup_first(c, sw) ==
    LET prolog_end == Find(c, "%%BeginSetup")
        dict_end   == Find(c, "%%EndProlog")
        at         == IF prolog_end # 0 THEN prolog_end ELSE dict_end
    IN  IF at = 0 THEN c
        ELSE SubSeq(c, 1, at - 1) \o SpotColorCode(sw) \o SubSeq(c, at, Len(c))

add_spot_color_support(c, sw) ==
    LET prolog_end == Find(c, "%%EndProlog")
        dict_end   == Find(c, "%%BeginSetup")
        at         == IF prolog_end # 0 THEN prolog_end ELSE dict_end
    IN  IF at = 0 THEN c
        ELSE SubSeq(c, 1, at - 1) \o SpotColorCode(sw) \o SubSeq(c, at, Len(c))

-----------------------------------------------------------------------------
(* Document Merger: merge_eps_files.                                       *)

\* str.strip()
RECURSIVE LStrip(_)
LStrip(s) == IF Len(s) > 0 /\ IsWhite(s[1]) THEN LStrip(Tail(s)) ELSE s

RECURSIVE RStrip(_)
RStrip(s) ==
    IF Len(s) > 0 /\ IsWhite(s[Len(s)])
    THEN RStrip(SubSeq(s, 1, Len(s) - 1)) ELSE s

Strip(s) == RStrip(LStrip(s))

\* positions of a marker in a text
Positions(c, marker) == {i \in 1..Len(c) : c[i] = marker}

SetMin(S) == CHOOSE x \in S : \A y \in S : x <= y
SetMax(S) == CHOOSE x \in S : \A y \in S : y <= x

\* '%%EndPageSetup\s*\n' matched at the marker at position i: the position
\* right after the last line break of the blank run behind the marker, 0 when
\* the run holds no line break (\s* is greedy and gives back up to that "\n")
AfterSetupEnd(c, i) ==
    LET run == {j \in (i + 1)..Len(c) : \A k \in (i + 1)..j : IsWhite(c[k])}
        nls == {j \in run : c[j] = NL}
    IN  IF nls = {} THEN 0 ELSE SetMax(nls) + 1

\* r'[\d.]+' then r'\s+' ... after '%%BoundingBox:\s*': n numbers separated by
\* blanks start at position i
RECURSIVE NumbersAt(_, _, _)
NumbersAt(c, i, n) ==
    IF n = 0 THEN TRUE
    ELSE LET nums == {j \in i..Len(c) : \A k \in i..j : IsNum(c[k])}
         IN  /\ nums # {}
             /\ IF n = 1 THEN TRUE
                ELSE LET e  == SetMax(nums)
                         ws == {j \in (e + 1)..Len(c) :
                                    \A k \in (e + 1)..j : IsWhite(c[k])}
                     IN  ws # {} /\ NumbersAt(c, SetMax(ws) + 1, n - 1)

\* BBoxMatch that accepts any '%%BoundingBox:' comment
BBoxMatchAnyComment(c) == Positions(c, "%%BoundingBox:") # {}

\* re.search(r'%%BoundingBox:\s*([\d.]+)\s+([\d.]+)\s+([\d.]+)\s+([\d.]+)', c)
BBoxMatch(c) ==
    \E i \in Positions(c, "%%BoundingBox:") :
        LET ws == {j \in (i + 1)..Len(c) : \A k \in (i + 1)..j : IsWhite(c[k])}
            s  == IF ws = {} THEN i + 1 ELSE SetMax(ws) + 1
        IN  NumbersAt(c, s, 4)

\* atoms whose text holds the characters 'cm', 'q'
CmAtoms == {"cm", "setcmykcolor", "findcmykcustomcolor", "/findcmykcustomcolor"}
QAtoms  == {"q"}

\* positions k where the text 'cm q' starts
CmQPositions(s) ==
    {k \in 1..(Len(s) - 2) : s[k] = "cm" /\ s[k + 1] = " " /\ s[k + 2] = "q"}

\* 'cm q' in line or 'cm' in line and 'q' in line
IsTransformLine(line) ==
    \/ CmQPositions(line) # {}
    \/ /\ \E i \in 1..Len(line) : line[i] \in CmAtoms
       /\ \E i \in 1..Len(line) : line[i] \in QAtoms

\* start_idx: i + 1 for the first line i (0-based) with the transform, else 0
StartIdx(lines) ==
    LET hits == {i \in 1..Len(lines) : IsTransformLine(lines[i])}
    IN  IF hits = {} THEN 0 ELSE SetMin(hits)

IsRestore(line) == Strip(line) \in {<<"Q", " ", "Q">>, <<"Q">>}

IsClosing(line) == IsRestore(line) \/ Strip(line) = <<"showpage">>

\* print: for i in range(len(lines) - 1, start_idx, -1), first restore line
\* met from the end; values are Python's 0-based indices
PrintEndIdx(lines, start_idx) ==
    LET hits == {i \in (start_idx + 1)..(Len(lines) - 1) :
                     IsRestore(lines[i + 1])}
    IN  IF hits = {} THEN Len(lines) ELSE SetMax(hits)

\* cut: the same scan, moving end_idx over closing lines and past blank
\* lines until a drawing line is met
RECURSIVE CutEndLoop(_, _, _, _)
CutEndLoop(lines, i, start_idx, end_idx) ==
    IF i <= start_idx THEN end_idx
    ELSE IF IsClosing(lines[i + 1])
         THEN CutEndLoop(lines, i - 1, start_idx, i)
         ELSE IF Len(Strip(lines[i + 1])) > 0 THEN end_idx
         ELSE CutEndLoop(lines, i - 1, start_idx, end_idx)

CutEndIdx(lines, start_idx) ==
    CutEndLoop(lines, Len(lines) - 1, start_idx, Len(lines))

\* re.search(r'%%EndPageSetup\s*\n(.*?)\s*showpage', c, re.DOTALL):
\* <<found, group(1)>>
PrintFullMatch(c) ==
    LET ok == {i \in Positions(c, "%%EndPageSetup") :
                   /\ AfterSetupEnd(c, i) # 0
                   /\ \E q \in Positions(c, "showpage") : q > i}
    IN  IF ok = {} THEN <<FALSE, <<>>>>
        ELSE LET i     == SetMin(ok)
                 start == AfterSetupEnd(c, i)
                 q     == SetMin({x \in Positions(c, "showpage") : x > i})
                 blank == {p \in start..q : \A k \in p..(q - 1) : IsWhite(c[k])}
             IN  <<TRUE, SubSeq(c, start, SetMin(blank) - 1)>>

\* re.search(r'%%EndPageSetup\s*\n(.*?)%%Trailer', c, re.DOTALL)
CutFullMatch(c) ==
    LET ok == {i \in Positions(c, "%%EndPageSetup") :
                   /\ AfterSetupEnd(c, i) # 0
                   /\ \E t \in Positions(c, "%%Trailer") : t > i}
    IN  IF ok = {} THEN <<FALSE, <<>>>>
        ELSE LET i     == SetMin(ok)
                 start == AfterSetupEnd(c, i)
                 t     == SetMin({x \in Positions(c, "%%Trailer") : x > i})
             IN  <<TRUE, SubSeq(c, start, t - 1)>>

\* print_drawing_commands
PrintDrawingCommands(c) ==
    LET m == PrintFullMatch(c)
    IN  IF ~m[1] THEN <<>>
        ELSE LET lines     == SplitLines(m[2])
                 start_idx == StartIdx(lines)
                 end_idx   == PrintEndIdx(lines, start_idx)
             IN  Strip(JoinLines(SubSeq(lines, start_idx + 1, end_idx)))

\* cut_drawing_commands
CutDrawingCommands(c) ==
    LET m == CutFullMatch(c)
    IN  IF ~m[1] THEN <<>>
        ELSE LET lines     == SplitLines(m[2])
                 start_idx == StartIdx(lines)
                 end_idx   == CutEndIdx(lines, start_idx)
             IN  Strip(JoinLines(SubSeq(lines, start_idx + 1, end_idx)))

\* re.search(r'(%%Page:.*?%%EndPageSetup)', c, re.DOTALL): <<found, group(1)>>
PageHeaderMatch(c) ==
    LET ok == {a \in Positions(c, "%%Page:") :
                   \E b \in Positions(c, "%%EndPageSetup") : b > a}
    IN  IF ok = {} THEN <<FALSE, <<>>>>
        ELSE LET a == SetMin(ok)
                 b == SetMin({x \in Positions(c, "%%EndPageSetup") : x > a})
             IN  <<TRUE, SubSeq(c, a, b)>>

\* graphics_setup: group(1) of r'%%EndPageSetup\s*\n(.*?cm q)', stripped
GraphicsSetup(c) ==
    LET ok == {i \in Positions(c, "%%EndPageSetup") :
                   /\ AfterSetupEnd(c, i) # 0
                   /\ \E k \in CmQPositions(c) : k >= AfterSetupEnd(c, i)}
    IN  IF ok = {} THEN <<>>
        ELSE LET i     == SetMin(ok)
                 start == AfterSetupEnd(c, i)
                 k     == SetMin({x \in CmQPositions(c) : x >= start})
             IN  Strip(SubSeq(c, start, k + 2))

\* merge_eps_files that opens the output before it looks for the page
\* markers
merge_eps_files_writes_first(p, c) ==
    IF p = NoFile \/ c = NoFile
    THEN [result |-> FALSE, written |-> NoFile]
    ELSE IF ~BBoxMatch(c)
    THEN [result |-> FALSE, written |-> NoFile]
    ELSE IF ~PageHeaderMatch(c)[1]
    THEN [result |-> FALSE, written |-> NoFile]
    ELSE LET page_start    == Find(c, "%%Page:")
             trailer_start == Find(c, "%%Trailer")
         IN  IF page_start = 0 \/ trailer_start = 0
             THEN [result |-> FALSE, written |-> <<>>]
             ELSE [result  |-> TRUE,
                   written |->
                       SubSeq(c, 1, page_start - 1)
                       \o PageHeaderMatch(c)[2] \o <<NL>>
                       \o GraphicsSetup(c) \o <<NL>>
                       \o PrintDrawingCommands(p) \o <<NL>>
                       \o CutDrawingCommands(c) \o <<NL>>
                       \o <<"Q", " ", "Q", NL>>
                       \o <<"showpage", NL>>
                       \o SubSeq(c, trailer_start, Len(c))]

\* the value merge_eps_files returns and the text it writes to output_path
merge_eps_files(p, c) ==
    IF p = NoFile \/ c = NoFile
    THEN [result |-> FALSE, written |-> NoFile]          \* open() raises
    ELSE IF ~BBoxMatch(c)
    THEN [result |-> FALSE, written |-> NoFile]
    ELSE IF ~PageHeaderMatch(c)[1]
    THEN [result |-> FALSE, written |-> NoFile]
    ELSE LET page_start    == Find(c, "%%Page:")
             trailer_start == Find(c, "%%Trailer")
         IN  IF page_start = 0 \/ trailer_start = 0
             THEN [result |-> FALSE, written |-> NoFile]
             ELSE [result  |-> TRUE,
                   written |->
                       SubSeq(c, 1, page_start - 1)
                       \o PageHeaderMatch(c)[2] \o <<NL>>
                       \o GraphicsSetup(c) \o <<NL>>
                       \o PrintDrawingCommands(p) \o <<NL>>
                       \o CutDrawingCommands(c) \o <<NL>>
                       \o <<"Q", " ", "Q", NL>>
                       \o <<"showpage", NL>>
                       \o SubSeq(c, trailer_start, Len(c))]


-----------------------------------------------------------------------------
(* Layer Splitter: drawings (SVG).  A drawing is its element tree; an      *)
(* element is its tag (namespace and local name), its id and               *)
(* inkscape:label attributes (sequences of characters, <<>> when absent),  *)
(* its style attribute (atoms) and its children in document order.         *)

SvgNs == "{http://www.w3.org/2000/svg}"

\* no 'style' key in elem.attrib
NoStyle == <<"<no style>">>

Element(ns, local, id, label, style, children) ==
    [tag |-> <<ns, local>>, id |-> id, label |-> label, style |-> style,
     children |-> children]

NoElement == Element("", "", <<>>, <<>>, NoStyle, <<>>)

\* a file that holds no drawing or is not there, a drawing ET.parse
\* rejects, a drawing with its root element
NoSvg         == [state |-> "none", root |-> NoElement]
Unparsable    == [state |-> "unparsable", root |-> NoElement]
Drawing(root) == [state |-> "parsed", root |-> root]

\* is_svg_file: the text of the file holds '<svg' or starts with '<?xml'
is_svg_file(d) == d.state # "none"

UpperLetters == <<"A", "B", "C", "D", "E", "F", "G", "H", "I", "J", "K", "L",
                  "M", "N", "O", "P", "Q", "R", "S", "T", "U", "V", "W", "X",
                  "Y", "Z">>
LowerLetters == <<"a", "b", "c", "d", "e", "f", "g", "h", "i", "j", "k", "l",
                  "m", "n", "o", "p", "q", "r", "s", "t", "u", "v", "w", "x",
                  "y", "z">>

\* str.lower() on a sequence of characters
LowerChar(ch) ==
    IF \E k \in 1..26 : UpperLetters[k] = ch
    THEN LowerLetters[CHOOSE k \in 1..26 : UpperLetters[k] = ch]
    ELSE ch

Lower(s) == [i \in 1..Len(s) |-> LowerChar(s[i])]

\* 'cut' in s
HasCut(s) ==
    \E i \in 1..(Len(s) - 2) : SubSeq(s, i, i + 2) = <<"c", "u", "t">>

\* 'cut' in elem_id.lower() or 'cut' in elem_label.lower()
is_cut_group(elem) == HasCut(Lower(elem.id)) \/ HasCut(Lower(elem.label))

\* root.iter(): the element and its descendants in document order
RECURSIVE Iter(_)
RECURSIVE IterAll(_)
Iter(elem) == <<elem>> \o IterAll(elem.children)
IterAll(elems) ==
    IF elems = <<>> THEN <<>>
    ELSE Iter(Head(elems)) \o IterAll(Tail(elems))

\* find_cut_group_in_svg that takes a parse error for a match
find_cut_group_in_svg_match_on_error(d) ==
    IF d.state # "parsed" THEN <<TRUE, <<>>>>
    ELSE LET hits == SelectSeq(Iter(d.root), is_cut_group)
         IN  <<Len(hits) > 0,
               [i \in 1..Len(hits) |->
                   IF hits[i].id # <<>> THEN hits[i].id ELSE hits[i].label]>>

\* find_cut_group_in_svg: <<has_cut_group, cut_group_ids>>; a drawing that
\* cannot be parsed gives a warning and <<False, []>>
find_cut_group_in_svg(d) ==
    IF d.state # "parsed" THEN <<FALSE, <<>>>>
    ELSE LET hits == SelectSeq(Iter(d.root), is_cut_group)
         IN  <<Len(hits) > 0,
               [i \in 1..Len(hits) |->
                   IF hits[i].id # <<>> THEN hits[i].id ELSE hits[i].label]>>

\* re.sub(r'display:\s*none', 'display:inline', style)
RECURSIVE SubDisplayNone(_)
SubDisplayNone(s) ==
    IF s = <<>> THEN <<>>
    ELSE IF /\ s[1] = "display:"
            /\ \E j \in 2..Len(s) :
                   s[j] = "none" /\ \A k \in 2..(j - 1) : IsWhite(s[k])
         THEN LET j == CHOOSE j \in 2..Len(s) :
                           s[j] = "none" /\ \A k \in 2..(j - 1) : IsWhite(s[k])
              IN  <<"display:", "inline">>
                      \o SubDisplayNone(SubSeq(s, j + 1, Len(s)))
         ELSE <<s[1]>> \o SubDisplayNone(Tail(s))

\* the loop over root.iter() of create_svg_with_only_cut_group: every cut
\* element that has a style is made visible
RECURSIVE ShowCut(_)
ShowCut(elem) ==
    [elem EXCEPT
        !.style = IF is_cut_group(elem) /\ elem.style # NoStyle
                  THEN SubDisplayNone(elem.style) ELSE elem.style,
        !.children = [i \in 1..Len(elem.children) |->
                         ShowCut(elem.children[i])]]

\* tag.endswith('}g') or ...('}path') or ...('}rect') or ...('}circle')
IsRemovableTag(tag) ==
    tag[1] # "" /\ tag[2] \in {"g", "path", "rect", "circle"}

\* create_svg_with_only_cut_group: what it returns and the drawing it
\* writes; writable is whether tree.write succeeds
create_svg_with_only_cut_group(d, writable) ==
    IF d.state # "parsed" \/ ~writable
    THEN [result |-> FALSE, written |-> NoSvg]
    ELSE LET root == ShowCut(d.root)
             Keep(c) == is_cut_group(c) \/ ~IsRemovableTag(c.tag)
         IN  [result  |-> \E i \in 1..Len(Iter(d.root)) :
                              is_cut_group(Iter(d.root)[i]),
              written |-> Drawing([root EXCEPT
                              !.children = SelectSeq(root.children, Keep)])]

\* create_svg_without_cut_group: the cut elements among the children of
\* the root are removed
create_svg_without_cut_group(d, writable) ==
    IF d.state # "parsed" \/ ~writable
    THEN [result |-> FALSE, written |-> NoSvg]
    ELSE LET Keep(c) == ~is_cut_group(c)
         IN  [result  |-> TRUE,
              written |-> Drawing([d.root EXCEPT
                              !.children = SelectSeq(d.root.children, Keep)])]

-----------------------------------------------------------------------------
(* convert: the tests it makes on the document text.                       *)

\* content.startswith('%!PS-Adobe'): the first atom starts with it
PSAdobeAtoms == {"%!PS-Adobe", "%!PS-Adobe-3.0", "%!PS-Adobe-2.0"}

StartsWithPSAdobe(c) == Len(c) >= 1 /\ c[1] \in PSAdobeAtoms

\* the atoms that hold the characters 'CutContour'
CutContourAtoms == {"CutContour", "(CutContour)", "CutContourColor",
                    "/CutContourColor", "SetCutContourStroke",
                    "/SetCutContourStroke"}

\* 'CutContour' in content
HasCutContour(c) == \E i \in 1..Len(c) : c[i] \in CutContourAtoms

\* the answer of input(): response.lower() != 'y'
NotAsked == <<"<not asked>">>

\* the same test without .lower()
DeclinesCaseSensitive(answer) == answer # <<"y">>

Declines(answer) == Lower(answer) # <<"y">>

\* the three passes in the order convert applies them
RewriteAll(c, sw) ==
    replace_stroke_commands(add_spot_color_support(add_header_definitions(c), sw))
-----------------------------------------------------------------------------
(* Input documents.                                                        *)

\* all sequences of 1..n lines over a pool of lines
Docs(pool, n) == UNION {[1..k -> pool] : k \in 1..n}

\* header lines: the two anchors, an existing declaration, any other comment
BoundingBoxLine   == <<"%%BoundingBox:", " ", "0", " ", "0", " ", "100", " ", "100">>
LanguageLevelLine == <<"%%LanguageLevel:", " ", "3">>
CreatorLine       == <<"%%Creator:", " ", "cairo">>

HeaderLinePool == {BoundingBoxLine, LanguageLevelLine, DCCLine, CreatorLine}

\* page lines: region markers, colour and width setters, strokes, others
PageLine           == <<"%%Page:", " ", "1", " ", "1">>
BeginPageSetupLine == <<"%%BeginPageSetup">>
TrailerLine        == <<"%%Trailer">>
EOFLine            == <<"%%EOF">>

PageLinePool ==
    { PageLine, BeginPageSetupLine, TrailerLine, EOFLine,
      <<"1", " ", "0", " ", "0", " ", "setrgbcolor">>,
      <<"0", " ", "0", " ", "0", " ", "1", " ", "setcmykcolor">>,
      <<" ", "0.5", " ", "g">>,
      <<"0.5", " ", "w", " ">>,
      <<"10", " ", "20", " ", "m", " ", "30", " ", "40", " ", "l", " ", "S">>,
      <<"S">>,
      <<" ", "S">>,
      <<"stroke", " ">>,
      <<"m", " ", "S", " ", "l", " ", "S">>,
      <<"m", " ", "S", " ", "S", " ", "l">>,
      <<"10", " ", "20", " ", "m">> }

\* prolog lines: the two insertion markers, alone and inside a line
PSAdobeLine    == <<"%!PS-Adobe-3.0", " ", "EPSF-3.0">>
EndPrologLine  == <<"%%EndProlog">>
BeginSetupLine == <<"%%BeginSetup">>

PrologLinePool ==
    { PSAdobeLine, EndPrologLine, BeginSetupLine, PageLine,
      <<"end", " ", "%%EndProlog">> }

\* self.stroke_width as convert prints it: the default and one given width
StrokeWidths == {HAIRLINE_WIDTH, "0.5"}

\* EPS documents handed to merge_eps_files: an exported page whose parts are
\* present or missing as f says, with the drawing lines body
EndPageSetupLine == <<"%%EndPageSetup">>
ClipLine     == <<"q", " ", "0", " ", "0", " ", "100", " ", "100", " ", "rectclip">>
TransformLine == <<"1", " ", "0", " ", "0", " ", "1", " ", "0", " ", "100", " ", "cm", " ", "q">>
ShowpageLine == <<"showpage">>
BBoxAtEndLine == <<"%%BoundingBox:", " ", "(atend)">>

EpsDoc(f, body) ==
    JoinLines(
        <<PSAdobeLine, <<"%%Title:", " ", f.title>>>>
        \o (CASE f.bbox = "num"   -> <<BoundingBoxLine>>
              [] f.bbox = "atend" -> <<BBoxAtEndLine>>
              [] OTHER            -> <<>>)
        \o <<EndPrologLine>>
        \o (IF f.page THEN <<PageLine>> ELSE <<>>)
        \o (IF f.setup THEN <<EndPageSetupLine>> ELSE <<>>)
        \o (IF f.cm THEN <<ClipLine, TransformLine>> ELSE <<>>)
        \o body
        \o (IF f.showpage THEN <<ShowpageLine>> ELSE <<>>)
        \o (IF f.trailer THEN <<TrailerLine>> ELSE <<>>)
        \o <<EOFLine>>)

Complete == [title |-> "cut", bbox |-> "num", page |-> TRUE, setup |-> TRUE,
             cm |-> TRUE, showpage |-> TRUE, trailer |-> TRUE]

PrintComplete == [Complete EXCEPT !.title = "print"]

PrintShapes == [title : {"print"}, bbox : {"num", "none"}, page : {TRUE},
                setup : BOOLEAN, cm : BOOLEAN, showpage : BOOLEAN,
                trailer : {TRUE}]

CutShapes == [title : {"cut"}, bbox : {"num", "atend", "none"}, page : BOOLEAN,
              setup : BOOLEAN, cm : BOOLEAN, showpage : {TRUE},
              trailer : BOOLEAN]

PrintDrawLine == <<"0", " ", "0", " ", "10", " ", "10", " ", "re", " ", "f">>
CutDrawLine   == <<"0", " ", "0", " ", "m", " ", "10", " ", "10", " ", "l", " ",
                   "SetCutContourStroke", " ", "SetHairlineStroke", " ", "S">>
RestoreLine   == <<"Q">>
Restore2Line  == <<"Q", " ", "Q">>

Bodies(pool, n) == UNION {[1..k -> pool] : k \in 0..n}

PrintBodies == Bodies({PrintDrawLine, RestoreLine, Restore2Line}, MaxBodyLines)
CutBodies   == Bodies({CutDrawLine, RestoreLine, Restore2Line}, MaxBodyLines)

\* the pairs (print, cut): every shape of both around a plain page body,
\* every body of both inside complete documents, and an unreadable file
MergePairs ==
    {<<EpsDoc(pf, <<PrintDrawLine, Restore2Line>>),
       EpsDoc(cf, <<CutDrawLine, Restore2Line>>)>> :
         pf \in PrintShapes, cf \in CutShapes}
    \cup {<<EpsDoc(PrintComplete, pb), EpsDoc(Complete, cb)>> :
              pb \in PrintBodies, cb \in CutBodies}
    \cup {<<NoFile, EpsDoc(Complete, <<CutDrawLine, Restore2Line>>)>>,
          <<EpsDoc(PrintComplete, <<PrintDrawLine, Restore2Line>>), NoFile>>}

-----------------------------------------------------------------------------
(* Initial states: one per kind of input.                                  *)

\* no conversion run: the passes and the merge are called on their own
NoConversion ==
    /\ svg = NoSvg
    /\ eps_file = NoFile
    /\ is_svg_input = FALSE
    /\ convert_everything = FALSE
    /\ has_cut_layer = FALSE
    /\ cut_svg = NoSvg
    /\ print_svg = NoSvg
    /\ exports = <<>>
    /\ response = NotAsked
    /\ pc = "idle"
    /\ result = "none"

InitPass(c) ==
    /\ NoConversion
    /\ content = c
    /\ prev = c
    /\ calls = <<>>
    /\ rewrite_log = <<>>
    /\ print_content = NoFile
    /\ cut_content = NoFile
    /\ output_file = NoFile
    /\ merge_result = "none"

InitHeader ==
    /\ \E d \in Docs(HeaderLinePool, MaxHeaderLines) : InitPass(JoinLines(d))
    /\ stroke_width = HAIRLINE_WIDTH

InitRewrite ==
    /\ \E d \in Docs(PageLinePool, MaxPageLines) : InitPass(JoinLines(d))
    /\ stroke_width = HAIRLINE_WIDTH

InitProlog ==
    /\ \E d \in Docs(PrologLinePool, MaxPrologLines) : InitPass(JoinLines(d))
    /\ stroke_width \in StrokeWidths

InitMerge ==
    /\ NoConversion
    /\ content = <<>>
    /\ prev = <<>>
    /\ calls = <<>>
    /\ rewrite_log = <<>>
    /\ stroke_width = HAIRLINE_WIDTH
    /\ \E pair \in MergePairs :
           /\ print_content = pair[1]
           /\ cut_content = pair[2]
    /\ output_file = NoFile
    /\ merge_result = "none"

-----------------------------------------------------------------------------
(* Operations.                                                             *)

AddHeaderDefinitions ==
    /\ Len(calls) < MaxCalls
    /\ prev' = content
    /\ content' = add_header_definitions(content)
    /\ calls' = Append(calls, "add_header_definitions")
    /\ UNCHANGED <<rewrite_log, stroke_width, print_content, cut_content,
                   output_file, merge_result, convertVars>>

AddSpotColorSupport ==
    /\ Len(calls) < MaxCalls
    /\ prev' = content
    /\ content' = add_spot_color_support(content, stroke_width)
    /\ calls' = Append(calls, "add_spot_color_support")
    /\ UNCHANGED <<rewrite_log, stroke_width, print_content, cut_content,
                   output_file, merge_result, convertVars>>

ReplaceStrokeCommands ==
    /\ Len(calls) < MaxCalls
    /\ prev' = content
    /\ content' = replace_stroke_commands(content)
    /\ rewrite_log' = ReplaceLog(content)
    /\ calls' = Append(calls, "replace_stroke_commands")
    /\ UNCHANGED <<stroke_width, print_content, cut_content, output_file,
                   merge_result, convertVars>>

MergeEpsFiles ==
    /\ merge_result = "none"
    /\ LET r == merge_eps_files(print_content, cut_content)
       IN  /\ merge_result' = (IF r.result THEN "True" ELSE "False")
           /\ output_file' = r.written
    /\ UNCHANGED <<content, prev, calls, rewrite_log, stroke_width,
                   print_content, cut_content, convertVars>>

-----------------------------------------------------------------------------
(* Specifications.                                                         *)

NextHeader == AddHeaderDefinitions
SpecHeader == InitHeader /\ [][NextHeader]_vars

NextRewrite == ReplaceStrokeCommands
SpecRewrite == InitRewrite /\ [][NextRewrite]_vars

NextProlog == AddSpotColorSupport
SpecProlog == InitProlog /\ [][NextProlog]_vars

NextMerge == MergeEpsFiles
SpecMerge == InitMerge /\ [][NextMerge]_vars

-----------------------------------------------------------------------------
(* Vocabulary of the properties: the shapes of lines and the page regions  *)
(* as the specification words them, defined on the words of a line and not *)
(* through the program's regular expressions.                              *)

OccurrencesOf(c, a) == Cardinality({i \in 1..Len(c) : c[i] = a})

\* the maximal runs of non-blank atoms of a line, in order
RECURSIVE WordsFrom(_, _)
WordsFrom(line, i) ==
    IF i > Len(line) THEN <<>>
    ELSE IF IsSpace(line[i]) THEN WordsFrom(line, i + 1)
    ELSE LET e == SetMax({j \in i..Len(line) :
                              \A k \in i..j : ~IsSpace(line[k])})
         IN  <<SubSeq(line, i, e)>> \o WordsFrom(line, e + 1)

Words(line) == WordsFrom(line, 1)

IsNumberWord(w) == Len(w) > 0 /\ \A k \in 1..Len(w) : w[k] \in NumAtoms

NumberWords(w, n) == \A k \in 1..n : IsNumberWord(w[k])

IsColorShape(line) ==
    LET w == Words(line)
    IN  \/ Len(w) = 4 /\ NumberWords(w, 3)
           /\ w[4] \in {<<"rg">>, <<"setrgbcolor">>}
        \/ Len(w) = 5 /\ NumberWords(w, 4) /\ w[5] = <<"setcmykcolor">>
        \/ Len(w) = 2 /\ NumberWords(w, 1)
           /\ w[2] \in {<<"g">>, <<"setgray">>}

IsWidthShape(line) ==
    LET w == Words(line)
    IN  Len(w) = 2 /\ NumberWords(w, 1)
        /\ w[2] \in {<<"w">>, <<"setlinewidth">>}

\* after trimming, exactly a stroke token
IsStandaloneShape(line) == Words(line) \in {<<<<"S">>>>, <<<<"stroke">>>>}

\* positions of the stroke tokens that follow a blank and end the line or
\* are followed by a blank
InlineTokens(line) ==
    {i \in 2..Len(line) : /\ line[i] \in {"S", "stroke"}
                          /\ IsSpace(line[i - 1])
                          /\ (i = Len(line) \/ IsSpace(line[i + 1]))}

\* a stroke-inline line that is not a stroke-standalone line
IsInlineShape(line) == InlineTokens(line) # {} /\ ~IsStandaloneShape(line)

OpensPage(line) ==
    \E i \in 1..Len(line) : line[i] \in {"%%Page:", "%%BeginPageSetup"}

ClosesPage(line) ==
    \E i \in 1..Len(line) : line[i] \in {"%%Trailer", "%%EOF"}

IsMarkerLine(line) == OpensPage(line) \/ ClosesPage(line)

\* line i is read inside a page region: a page opened before it and no
\* trailer or end-of-file marker came since
InRegion(lines, i) ==
    \E j \in 1..(i - 1) :
        /\ OpensPage(lines[j])
        /\ \A k \in (j + 1)..(i - 1) : OpensPage(lines[k]) \/ ~ClosesPage(lines[k])

\* line i is a line of a page body
IsBodyLine(lines, i) == InRegion(lines, i) /\ ~IsMarkerLine(lines[i])

LastCall == IF Len(calls) = 0 THEN "none" ELSE calls[Len(calls)]

InputLines == SplitLines(prev)
OutputLines == SplitLines(content)

-----------------------------------------------------------------------------
(* Header Annotator.                                                       *)

\* C1: add_header_definitions is idempotent: applied to its own output it
\* returns that output unchanged, so a second application adds no second
\* '%%DocumentCustomColors:' declaration.
HeaderIdempotent ==
    calls = <<"add_header_definitions", "add_header_definitions">>
        => content = prev

\* C2: one application inserts the two declaration lines at most once, and
\* then immediately after the first line of the document that starts with
\* '%%BoundingBox:' or '%%LanguageLevel:'; all other lines are kept in order.
HeaderAfterFirstAnchor ==
    calls = <<"add_header_definitions">> =>
        LET anchors == {i \in 1..Len(InputLines) :
                            \/ StartsWith(InputLines[i], "%%BoundingBox:")
                            \/ StartsWith(InputLines[i], "%%LanguageLevel:")}
        IN  \/ OutputLines = InputLines
            \/ /\ anchors # {}
               /\ OutputLines =
                      SubSeq(InputLines, 1, SetMin(anchors))
                      \o <<DCCLine, CMYKLine>>
                      \o SubSeq(InputLines, SetMin(anchors) + 1, Len(InputLines))

-----------------------------------------------------------------------------
(* Stroke Rewriter.                                                        *)

StandaloneCount ==
    Cardinality({i \in 1..Len(InputLines) :
                     IsBodyLine(InputLines, i) /\ IsStandaloneShape(InputLines[i])})

InlineCount ==
    Cardinality({i \in 1..Len(InputLines) :
                     IsBodyLine(InputLines, i) /\ IsInlineShape(InputLines[i])})

FirstRewrite ==
    /\ calls = <<"replace_stroke_commands">>
    /\ OccurrencesOf(prev, "SetCutContourStroke") = 0

NoneOutsidePages ==
    \A i \in 1..Len(OutputLines) :
        Contains(OutputLines[i], "SetCutContourStroke")
            => IsBodyLine(OutputLines, i)

SingleTokenLines ==
    \A i \in 1..Len(InputLines) :
        IsBodyLine(InputLines, i) /\ IsInlineShape(InputLines[i])
            => Cardinality(InlineTokens(InputLines[i])) = 1

PageScoping ==
    LastCall = "replace_stroke_commands" =>
        /\ Len(rewrite_log) = Len(InputLines)
        /\ \A i \in 1..Len(InputLines) :
               /\ rewrite_log[i].line = InputLines[i]
               /\ rewrite_log[i].in_page = InRegion(InputLines, i)
               /\ (~InRegion(InputLines, i) \/ IsMarkerLine(InputLines[i]))
                      => rewrite_log[i].out = <<InputLines[i]>>
        /\ content = JoinLines(NewLines(rewrite_log))

\* a page opened and closed again, and a stroke line after the trailer passed
\* through as it was
PageScopingWitness ==
    /\ calls = <<"replace_stroke_commands">>
    /\ \E i, j, k \in 1..Len(InputLines) :
           /\ i < j /\ j < k
           /\ OpensPage(InputLines[i])
           /\ rewrite_log[j].in_page
           /\ ClosesPage(InputLines[j])
           /\ ~rewrite_log[k].in_page
           /\ IsStandaloneShape(InputLines[k])
           /\ rewrite_log[k].out = <<InputLines[k]>>

\* C5 as stated: every page-body line that is, after trimming, exactly a
\* stroke token is emitted as the three lines 'SetCutContourStroke',
\* 'SetHairlineStroke' and the line itself.
StandaloneThreeLines ==
    LastCall = "replace_stroke_commands" =>
        \A i \in 1..Len(InputLines) :
            IsBodyLine(InputLines, i) /\ IsStandaloneShape(InputLines[i])
                => rewrite_log[i].out = <<<<"SetCutContourStroke">>,
                                          <<"SetHairlineStroke">>,
                                          InputLines[i]>>

LeadingBlanks(line) ==
    SetMax({k \in 0..Len(line) : \A j \in 1..k : IsSpace(line[j])})

\* C5 amended: a page-body line that is exactly a stroke token, optionally
\* followed by whitespace, is emitted as the three lines
\* 'SetCutContourStroke', 'SetHairlineStroke' and the line itself; when
\* whitespace precedes the token the line is emitted as one line, with
\* 'SetCutContourStroke SetHairlineStroke ' put in front of the token.
StandaloneRewrite ==
    LastCall = "replace_stroke_commands" =>
        \A i \in 1..Len(InputLines) :
            IsBodyLine(InputLines, i) /\ IsStandaloneShape(InputLines[i]) =>
                LET line == InputLines[i]
                    k    == LeadingBlanks(line)
                IN  IF k = 0
                    THEN rewrite_log[i].out = <<<<"SetCutContourStroke">>,
                                                <<"SetHairlineStroke">>, line>>
                    ELSE rewrite_log[i].out =
                             <<SubSeq(line, 1, k)
                               \o <<"SetCutContourStroke", " ",
                                    "SetHairlineStroke", " ">>
                               \o SubSeq(line, k + 1, Len(line))>>

\* a page body with an indented stroke line and one followed by a blank
StandaloneWitness ==
    /\ calls = <<"replace_stroke_commands">>
    /\ \E i, j \in 1..Len(InputLines) :
           /\ IsBodyLine(InputLines, i) /\ IsBodyLine(InputLines, j)
           /\ IsStandaloneShape(InputLines[i])
           /\ LeadingBlanks(InputLines[i]) > 0
           /\ Len(rewrite_log[i].out) = 1
           /\ IsStandaloneShape(InputLines[j])
           /\ IsSpace(InputLines[j][Len(InputLines[j])])
           /\ LeadingBlanks(InputLines[j]) = 0
           /\ Len(rewrite_log[j].out) = 3

\* the line with every stroke token of InlineTokens prefixed in place
RECURSIVE PrefixTokens(_, _)
PrefixTokens(line, i) ==
    IF i > Len(line) THEN <<>>
    ELSE (IF i \in InlineTokens(line)
          THEN <<"SetCutContourStroke", " ", "SetHairlineStroke", " ", line[i]>>
          ELSE <<line[i]>>)
         \o PrefixTokens(line, i + 1)

\* C6: a page-body line holding a whitespace-preceded stroke token followed
\* by whitespace or the line end is emitted as one line in which each such
\* token T is replaced by 'SetCutContourStroke SetHairlineStroke T', once,
\* with all other text kept.
InlineRewriteEveryToken ==
    LastCall = "replace_stroke_commands" =>
        \A i \in 1..Len(InputLines) :
            (/\ IsBodyLine(InputLines, i)
             /\ InlineTokens(InputLines[i]) # {}
             /\ ~IsColorShape(InputLines[i])
             /\ ~IsWidthShape(InputLines[i]))
                => rewrite_log[i].out = <<PrefixTokens(InputLines[i], 1)>>

\* the page-body lines with colour setters dropped and width setters replaced
RECURSIVE Survivors(_, _)
Survivors(lines, i) ==
    IF i > Len(lines) THEN <<>>
    ELSE (IF IsBodyLine(lines, i) /\ IsColorShape(lines[i]) THEN <<>>
          ELSE IF IsBodyLine(lines, i) /\ IsWidthShape(lines[i])
               THEN <<<<"SetHairlineStroke">>>>
          ELSE <<lines[i]>>)
         \o Survivors(lines, i + 1)

NoBodyStroke ==
    \A i \in 1..Len(InputLines) :
        IsBodyLine(InputLines, i) => InlineTokens(InputLines[i]) = {}
                                     /\ ~IsStandaloneShape(InputLines[i])

\* C7: in a page body nothing is emitted for a line 'N N N rg|setrgbcolor',
\* 'N N N N setcmykcolor' or 'N g|setgray', the single line
\* 'SetHairlineStroke' is emitted for a line 'N w|setlinewidth', and the
\* lines that survive keep their order.
ColorWidthSetters ==
    LastCall = "replace_stroke_commands" =>
        /\ \A i \in 1..Len(InputLines) :
               IsBodyLine(InputLines, i) =>
                   /\ IsColorShape(InputLines[i]) => rewrite_log[i].out = <<>>
                   /\ IsWidthShape(InputLines[i])
                          => rewrite_log[i].out = <<<<"SetHairlineStroke">>>>
        /\ NoBodyStroke => OutputLines = Survivors(InputLines, 1)

\* a page with a colour setter dropped between two kept lines and a width
\* setter replaced
ColorWidthWitness ==
    /\ calls = <<"replace_stroke_commands">>
    /\ NoBodyStroke
    /\ \E i, j \in 1..Len(InputLines) :
           /\ IsBodyLine(InputLines, i) /\ IsColorShape(InputLines[i])
           /\ IsBodyLine(InputLines, j) /\ IsWidthShape(InputLines[j])
    /\ Len(OutputLines) = Len(InputLines) - 1
    /\ \E i \in 1..Len(OutputLines) : OutputLines[i] = <<"SetHairlineStroke">>

NothingRecognized ==
    \A i \in 1..Len(InputLines) :
        IsBodyLine(InputLines, i) =>
            /\ ~IsColorShape(InputLines[i])
            /\ ~IsWidthShape(InputLines[i])
            /\ InlineTokens(InputLines[i]) = {}
            /\ ~IsStandaloneShape(InputLines[i])

\* C8: a document none of whose page-body lines is a colour, cmyk, gray or
\* width setter or a stroke line is returned unchanged.
RewriterRoundTrip ==
    (LastCall = "replace_stroke_commands" /\ NothingRecognized)
        => content = prev

\* a page whose body holds an unrecognized line, after a header line that
\* looks like an instruction, returned as it was
RoundTripWitness ==
    /\ calls = <<"replace_stroke_commands">>
    /\ NothingRecognized
    /\ \E i, j \in 1..Len(InputLines) :
           /\ ~InRegion(InputLines, i)
           /\ IsColorShape(InputLines[i]) \/ IsStandaloneShape(InputLines[i])
           /\ IsBodyLine(InputLines, j)
    /\ content = prev

-----------------------------------------------------------------------------
(* Prolog Injector.                                                        *)

FirstOf(c, marker) == SetMin({i \in 1..Len(c) : c[i] = marker})

InsertedBefore(c, k) ==
    SubSeq(c, 1, k - 1) \o SpotColorCode(stroke_width) \o SubSeq(c, k, Len(c))

HasInsertionMarker(c) ==
    OccurrencesOf(c, "%%EndProlog") + OccurrencesOf(c, "%%BeginSetup") > 0

\* C9: add_spot_color_support puts the procedure block right before the
\* first '%%EndProlog', without one right before the first '%%BeginSetup',
\* and returns the document unchanged without either; the output is the
\* input with the block in between, and every application adds a block.
PrologInjection ==
    LastCall = "add_spot_color_support" =>
        /\ IF OccurrencesOf(prev, "%%EndProlog") > 0
           THEN content = InsertedBefore(prev, FirstOf(prev, "%%EndProlog"))
           ELSE IF OccurrencesOf(prev, "%%BeginSetup") > 0
           THEN content = InsertedBefore(prev, FirstOf(prev, "%%BeginSetup"))
           ELSE content = prev
        /\ OccurrencesOf(content, "/CutContourColor")
               = IF HasInsertionMarker(content) THEN Len(calls) ELSE 0

\* a document with '%%BeginSetup' ahead of '%%EndProlog' holding two blocks
\* after two applications
PrologInjectionWitness ==
    /\ calls = <<"add_spot_color_support", "add_spot_color_support">>
    /\ OccurrencesOf(prev, "%%EndProlog") > 0
    /\ OccurrencesOf(prev, "%%BeginSetup") > 0
    /\ FirstOf(prev, "%%BeginSetup") < FirstOf(prev, "%%EndProlog")
    /\ OccurrencesOf(content, "/CutContourColor") = 2

-----------------------------------------------------------------------------
(* Document Merger.                                                        *)

\* a '%%BoundingBox:' comment with four numbers
HasBoundingBox(c) ==
    \E i \in 1..Len(SplitLines(c)) :
        LET w == Words(SplitLines(c)[i])
        IN  Len(w) >= 5 /\ w[1] = <<"%%BoundingBox:">>
            /\ \A k \in 2..5 : IsNumberWord(w[k])

PrintLocatable(c) ==
    /\ HasBoundingBox(c)
    /\ OccurrencesOf(c, "%%EndPageSetup") > 0
    /\ OccurrencesOf(c, "showpage") > 0

CutLocatable(c) ==
    /\ HasBoundingBox(c)
    /\ OccurrencesOf(c, "%%EndPageSetup") > 0
    /\ OccurrencesOf(c, "%%Trailer") > 0

CutComplete(c) == CutLocatable(c) /\ OccurrencesOf(c, "%%Page:") > 0

-----------------------------------------------------------------------------
(* Merged document: composition and fragments.                             *)

HasWord(line, w) == \E k \in 1..Len(line) : line[k] = w

\* index of the first line holding the word w, 0 when there is none
FirstLineWith(lines, w) ==
    IF \E i \in 1..Len(lines) : HasWord(lines[i], w)
    THEN CHOOSE i \in 1..Len(lines) :
             /\ HasWord(lines[i], w)
             /\ \A j \in 1..(i - 1) : ~HasWord(lines[j], w)
    ELSE 0

\* a coordinate-transform line: '... cm q'
EndsInCmQ(line) ==
    /\ Len(line) >= 3
    /\ SubSeq(line, Len(line) - 2, Len(line)) = <<"cm", " ", "q">>

\* the lines of a page after '%%EndPageSetup' and before the marker stop
PageBody(c, stop) ==
    LET L == SplitLines(c)
        e == FirstLineWith(L, "%%EndPageSetup")
        s == FirstLineWith(L, stop)
    IN  IF e = 0 \/ s = 0 THEN <<>> ELSE SubSeq(L, e + 1, s - 1)

\* how many lines at the head of a page body are its clip/transform setup
SetupLen(body) ==
    IF \E i \in 1..Len(body) : EndsInCmQ(body[i])
    THEN CHOOSE i \in 1..Len(body) :
             /\ EndsInCmQ(body[i])
             /\ \A j \in 1..(i - 1) : ~EndsInCmQ(body[j])
    ELSE 0

\* a fragment of no lines is written as one empty line
AsLines(frag) == IF frag = <<>> THEN << <<>> >> ELSE frag

HeaderAndProlog(c) ==
    SubSeq(SplitLines(c), 1, FirstLineWith(SplitLines(c), "%%Page:") - 1)

PageSetupBlock(c) ==
    SubSeq(SplitLines(c), FirstLineWith(SplitLines(c), "%%Page:"),
           FirstLineWith(SplitLines(c), "%%EndPageSetup"))

ClipTransform(c) ==
    LET b == PageBody(c, "%%Trailer") IN AsLines(SubSeq(b, 1, SetupLen(b)))

TrailerToEnd(c) ==
    SubSeq(SplitLines(c), FirstLineWith(SplitLines(c), "%%Trailer"),
           Len(SplitLines(c)))

MergedHead == HeaderAndProlog(cut_content) \o PageSetupBlock(cut_content)
                  \o ClipTransform(cut_content)

MergedTail == <<Restore2Line, ShowpageLine>> \o TrailerToEnd(cut_content)

\* the lines of the merged document between its head and its tail
MergedMiddle ==
    LET out == SplitLines(output_file)
    IN  SubSeq(out, Len(MergedHead) + 1, Len(out) - Len(MergedTail))

IsPrintDrawing(line) == HasWord(line, "f")
IsCutDrawing(line)   == HasWord(line, "S")

\* C11: on success the merged document is the cut document's header and
\* prolog, its page-setup block, its clip/transform setup, the print
\* fragment, the cut fragment, one 'Q Q' line, one 'showpage' line and the
\* cut document's text from '%%Trailer' on, in this order; every print
\* drawing line comes before every cut drawing line, and no line of the
\* print document's header or prolog appears.
MergeComposition ==
    merge_result = "True" =>
        LET out   == SplitLines(output_file)
            pbody == PageBody(print_content, "showpage")
            cbody == PageBody(cut_content, "%%Trailer")
            phead == HeaderAndProlog(print_content)
        IN  /\ Len(out) >= Len(MergedHead) + 2 + Len(MergedTail)
            /\ SubSeq(out, 1, Len(MergedHead)) = MergedHead
            /\ SubSeq(out, Len(out) - Len(MergedTail) + 1, Len(out))
                   = MergedTail
            /\ \A i \in 1..Len(MergedMiddle) :
                   \/ MergedMiddle[i] = <<>>
                   \/ \E k \in 1..Len(pbody) : pbody[k] = MergedMiddle[i]
                   \/ \E k \in 1..Len(cbody) : cbody[k] = MergedMiddle[i]
            /\ \A i, j \in 1..Len(MergedMiddle) :
                   (IsCutDrawing(MergedMiddle[i])
                    /\ IsPrintDrawing(MergedMiddle[j])) => j < i
            /\ Cardinality({i \in 1..Len(out) : out[i] = ShowpageLine}) = 1
            /\ \A k \in 1..Len(phead) :
                   (\E i \in 1..Len(out) : out[i] = phead[k])
                       => \E i \in 1..Len(SplitLines(cut_content)) :
                              SplitLines(cut_content)[i] = phead[k]

\* a state-restore line, a page-paint line
IsRestoreLine(line) == line = RestoreLine \/ line = Restore2Line
IsClosingLine(line) == IsRestoreLine(line) \/ line = ShowpageLine \/ line = <<>>

\* a page body without its trailing run of closing lines
RECURSIVE DropClosingRun(_)
DropClosingRun(body) ==
    IF body # <<>> /\ IsClosingLine(body[Len(body)])
    THEN DropClosingRun(SubSeq(body, 1, Len(body) - 1))
    ELSE body

\* the lines after the leading coordinate-transform line and before the
\* trailing run of state-restore lines
ExpectedFragment(body) ==
    DropClosingRun(SubSeq(body, SetupLen(body) + 1, Len(body)))

CountWord(c, w) == Cardinality({i \in 1..Len(c) : c[i] = w})

IsBalanced(c) == CountWord(c, "q") = CountWord(c, "Q")

\* C12: the print fragment in the merged document is exactly the print
\* document's lines after its leading coordinate-transform line and before
\* its trailing run of state-restore lines, the cut fragment is cut at its
\* end by the same rule, and merging two balanced pages gives a page with
\* balanced save/restore (stated for cut pages that hold a drawing line).
PrintFragmentExact ==
    (/\ merge_result = "True"
     /\ OccurrencesOf(print_content, "%%EndPageSetup") > 0
     /\ OccurrencesOf(print_content, "showpage") > 0
     /\ \E i \in 1..Len(PageBody(cut_content, "%%Trailer")) :
            IsCutDrawing(PageBody(cut_content, "%%Trailer")[i]))
        => /\ MergedMiddle
                  = AsLines(ExpectedFragment(PageBody(print_content, "showpage")))
                    \o AsLines(ExpectedFragment(PageBody(cut_content, "%%Trailer")))
           /\ (IsBalanced(print_content) /\ IsBalanced(cut_content))
                  => IsBalanced(output_file)

-----------------------------------------------------------------------------
(* Input drawings.                                                         *)

IdLayer1  == <<"l", "a", "y", "e", "r", "1">>
IdLayer2  == <<"l", "a", "y", "e", "r", "2">>
IdCut1    == <<"c", "u", "t", "1">>
IdP1      == <<"p", "1">>
IdSvg     == <<"s", "v", "g", "1">>
IdCutout  == <<"C", "u", "t", "o", "u", "t">>
LabelCut   == <<"C", "u", "t">>
LabelCUTS  == <<"C", "U", "T", "S">>
LabelPrint == <<"P", "r", "i", "n", "t">>

Hidden   == <<"display:", "none">>
HiddenSp == <<"fill:", "none", ";", "display:", " ", "none">>

PlainPath == Element(SvgNs, "path", IdP1, <<>>, NoStyle, <<>>)
CutPath   == Element(SvgNs, "path", IdCut1, <<>>, Hidden, <<>>)

\* what a group holds
NestedSeqs == {<<>>, <<PlainPath>>, <<CutPath>>, <<PlainPath, CutPath>>}

\* top-level elements: groups (layers) with and without the tag, shapes of
\* several kinds, an element without the SVG namespace
TopPool ==
    {Element(SvgNs, "g", n[1], n[2], n[3], ch) :
         n \in {<<IdLayer1, LabelPrint, NoStyle>>,
                <<IdLayer2, LabelCut, HiddenSp>>,
                <<<<>>, <<>>, NoStyle>>},
         ch \in NestedSeqs}
    \cup {PlainPath, CutPath,
          Element(SvgNs, "rect", IdP1, <<>>, NoStyle, <<>>),
          Element(SvgNs, "text", IdP1, <<>>, NoStyle, <<>>),
          Element(SvgNs, "ellipse", <<>>, LabelCUTS, NoStyle, <<>>),
          Element("", "path", IdP1, <<>>, NoStyle, <<>>)}

SvgRoot(id, children) == Element(SvgNs, "svg", id, <<>>, NoStyle, children)

\* the drawings given to the layer split
SplitDrawings ==
    {Drawing(SvgRoot(id, ch)) :
         id \in {IdSvg, IdCutout}, ch \in Bodies(TopPool, MaxTop)}
    \cup {Unparsable}

\* the drawings given to whole conversion runs: without the tag, with a
\* tagged layer, with a tagged path inside an untagged layer, unparsable
ConvertDrawings ==
    {Drawing(SvgRoot(IdSvg, <<PlainPath>>)),
     Drawing(SvgRoot(IdSvg,
         <<Element(SvgNs, "g", IdLayer1, LabelPrint, NoStyle, <<PlainPath>>),
           Element(SvgNs, "g", IdLayer2, LabelCut, HiddenSp, <<PlainPath>>)>>)),
     Drawing(SvgRoot(IdSvg,
         <<Element(SvgNs, "g", IdLayer1, LabelPrint, NoStyle, <<CutPath>>)>>)),
     Unparsable}

-----------------------------------------------------------------------------
(* Documents met by conversion runs: input EPS files and what the exporter *)
(* writes.                                                                 *)

StrokeLine == <<"0", " ", "0", " ", "m", " ", "10", " ", "10", " ", "l", " ", "S">>
WidthLine  == <<"0.5", " ", "w">>

\* an exported page with strokes
PlainDoc == EpsDoc(Complete, <<WidthLine, StrokeLine, Restore2Line>>)

\* the same without the start marker, without the trailer, already
\* holding the color name
NoMarkerDoc == Tail(Tail(Tail(Tail(PlainDoc))))
NoTrailerDoc ==
    EpsDoc([Complete EXCEPT !.trailer = FALSE],
           <<WidthLine, StrokeLine, Restore2Line>>)
ProcessedDoc ==
    EpsDoc(Complete, <<WidthLine, CutDrawLine, Restore2Line>>)

\* documents whose insertion marker comes after the page has begun, or is
\* '%%BeginSetup', or is missing
PageFirstDoc ==
    JoinLines(<<PSAdobeLine, BoundingBoxLine, PageLine, EndPrologLine,
                StrokeLine, ShowpageLine, TrailerLine, EOFLine>>)
SetupMarkerDoc ==
    JoinLines(<<PSAdobeLine, LanguageLevelLine, BeginSetupLine, PageLine,
                WidthLine, StrokeLine, ShowpageLine, TrailerLine, EOFLine>>)
SetupInPageDoc ==
    JoinLines(<<PSAdobeLine, BeginPageSetupLine, BeginSetupLine,
                StrokeLine, TrailerLine, EOFLine>>)
NoInsertionDoc ==
    JoinLines(<<PSAdobeLine, BoundingBoxLine, PageLine, StrokeLine,
                TrailerLine, EOFLine>>)

EpsDocs == {PlainDoc, NoMarkerDoc, NoTrailerDoc, ProcessedDoc, PageFirstDoc,
            SetupMarkerDoc, SetupInPageDoc, NoInsertionDoc}

\* what input() may return
Answers == {<<"y">>, <<"Y">>, <<"n">>, <<>>, <<"y", "e", "s">>}

-----------------------------------------------------------------------------
(* Conversion runs: EPSToVersaworksConverter(...) followed by convert().   *)

InitRun(d, f, all) ==
    /\ svg = d
    /\ eps_file = f
    /\ convert_everything = all
    /\ is_svg_input = FALSE
    /\ has_cut_layer = FALSE
    /\ cut_svg = NoSvg
    /\ print_svg = NoSvg
    /\ exports = <<>>
    /\ response = NotAsked
    /\ pc = "new"
    /\ result = "none"
    /\ content = <<>>
    /\ prev = <<>>
    /\ calls = <<>>
    /\ rewrite_log = <<>>
    /\ print_content = NoFile
    /\ cut_content = NoFile
    /\ output_file = NoFile
    /\ merge_result = "none"

\* a drawing to split
InitSplit ==
    /\ \E d \in SplitDrawings : InitRun(d, NoFile, FALSE)
    /\ stroke_width = HAIRLINE_WIDTH

\* an EPS file (or no file) or a drawing, with or without --convert-everything
Init ==
    /\ \/ \E f \in EpsDocs \cup {NoFile} : InitRun(NoSvg, f, FALSE)
       \/ \E d \in ConvertDrawings, all \in BOOLEAN : InitRun(d, NoFile, all)
    /\ stroke_width \in StrokeWidths

\* the lines of the documents given to the three passes: the insertion
\* markers, alone and inside a line, the page markers, strokes and widths
PipelineLinePool ==
    {EndPrologLine, BeginSetupLine, <<"end", " ", "%%EndProlog">>, PageLine,
     BeginPageSetupLine, WidthLine, StrokeLine, TrailerLine}

\* a run that has read a document with its start marker and without the
\* color name, and is about to rewrite it
InitPipeline ==
    /\ \E d \in Docs(PipelineLinePool, MaxPipelineLines) :
           /\ eps_file = JoinLines(<<PSAdobeLine>> \o d)
           /\ content = JoinLines(<<PSAdobeLine>> \o d)
    /\ svg = NoSvg
    /\ convert_everything = FALSE
    /\ is_svg_input = FALSE
    /\ has_cut_layer = FALSE
    /\ cut_svg = NoSvg
    /\ print_svg = NoSvg
    /\ exports = <<>>
    /\ response = NotAsked
    /\ pc = "rewrite"
    /\ result = "none"
    /\ prev = <<>>
    /\ calls = <<>>
    /\ rewrite_log = <<>>
    /\ print_content = NoFile
    /\ cut_content = NoFile
    /\ output_file = NoFile
    /\ merge_result = "none"
    /\ stroke_width = HAIRLINE_WIDTH

\* the run ends: convert returns r
Return(r) == result' = r /\ pc' = "done"

LayerMode == is_svg_input /\ has_cut_layer /\ ~convert_everything

\* __init__: the input is probed, and a drawing is searched for the tag
\* unless everything is to be converted
Construct ==
    /\ pc = "new"
    /\ is_svg_input' = is_svg_file(svg)
    /\ has_cut_layer' = IF is_svg_file(svg) /\ ~convert_everything
                        THEN find_cut_group_in_svg(svg)[1]
                        ELSE FALSE
    /\ pc' = "start"
    /\ UNCHANGED <<content, prev, calls, rewrite_log, stroke_width,
                   print_content, cut_content, output_file, merge_result,
                   svg, eps_file, convert_everything, cut_svg, print_svg,
                   exports, response, result>>

\* [1/6]: the two drawings are written to the temporary directory
ConvertSplit ==
    /\ pc = "start" /\ LayerMode
    /\ \E w1, w2 \in BOOLEAN :
           LET c == create_svg_with_only_cut_group(svg, w1)
               p == create_svg_without_cut_group(svg, w2)
           IN  /\ cut_svg' = c.written
               /\ print_svg' = IF c.result THEN p.written ELSE print_svg
               /\ IF c.result /\ p.result
                  THEN pc' = "export_cut" /\ UNCHANGED result
                  ELSE Return("False")
    /\ UNCHANGED <<content, prev, calls, rewrite_log, stroke_width,
                   print_content, cut_content, output_file, merge_result,
                   svg, eps_file, is_svg_input, convert_everything,
                   has_cut_layer, exports, response>>

\* convert_svg_to_eps: the exporter runs once; a non-zero return code, a
\* timeout or a missing program give False, else the EPS file holds text
\* [2/6]: the cut-only drawing
ConvertExportCut ==
    /\ pc = "export_cut"
    /\ \/ \E text \in EpsDocs :
              /\ exports' = Append(exports, [doc |-> "cut", ok |-> TRUE])
              /\ eps_file' = text
              /\ pc' = "export_print"
              /\ UNCHANGED result
       \/ /\ exports' = Append(exports, [doc |-> "cut", ok |-> FALSE])
          /\ Return("False")
          /\ UNCHANGED eps_file
    /\ UNCHANGED <<content, prev, calls, rewrite_log, stroke_width,
                   print_content, cut_content, output_file, merge_result,
                   svg, is_svg_input, convert_everything, has_cut_layer,
                   cut_svg, print_svg, response>>

\* [3/6]: the print-only drawing
ConvertExportPrint ==
    /\ pc = "export_print"
    /\ \/ \E text \in EpsDocs :
              /\ exports' = Append(exports, [doc |-> "print", ok |-> TRUE])
              /\ print_content' = text
              /\ pc' = "process_cut"
              /\ UNCHANGED result
       \/ /\ exports' = Append(exports, [doc |-> "print", ok |-> FALSE])
          /\ Return("False")
          /\ UNCHANGED print_content
    /\ UNCHANGED <<content, prev, calls, rewrite_log, stroke_width,
                   cut_content, output_file, merge_result, svg, eps_file,
                   is_svg_input, convert_everything, has_cut_layer, cut_svg,
                   print_svg, response>>

\* [4/6]: the cut EPS is read, tested for its start marker, rewritten and
\* written to the temporary directory
ConvertProcessCut ==
    /\ pc = "process_cut"
    /\ IF ~StartsWithPSAdobe(eps_file)
       THEN /\ content' = eps_file
            /\ Return("False")
            /\ UNCHANGED <<prev, calls, rewrite_log, cut_content>>
       ELSE /\ prev' = eps_file
            /\ content' = RewriteAll(eps_file, stroke_width)
            /\ calls' = calls \o <<"add_header_definitions",
                                   "add_spot_color_support",
                                   "replace_stroke_commands">>
            /\ rewrite_log' =
                   ReplaceLog(add_spot_color_support(
                       add_header_definitions(eps_file), stroke_width))
            /\ cut_content' = RewriteAll(eps_file, stroke_width)
            /\ pc' = "merge"
            /\ UNCHANGED result
    /\ UNCHANGED <<stroke_width, print_content, output_file, merge_result,
                   svg, eps_file, is_svg_input, convert_everything,
                   has_cut_layer, cut_svg, print_svg, exports, response>>

\* [5/6] and [6/6]: the merge writes the output file or fails; the
\* validator's verdict is not looked at
ConvertMerge ==
    /\ pc = "merge"
    /\ LET r == merge_eps_files(print_content, cut_content)
       IN  /\ merge_result' = (IF r.result THEN "True" ELSE "False")
           /\ output_file' = r.written
           /\ Return(IF r.result THEN "True" ELSE "False")
    /\ UNCHANGED <<content, prev, calls, rewrite_log, stroke_width,
                   print_content, cut_content, svg, eps_file, is_svg_input,
                   convert_everything, has_cut_layer, cut_svg, print_svg,
                   exports, response>>

\* single-layer mode, drawing input: the whole drawing is exported to the
\* intermediate EPS file
ConvertExportOriginal ==
    /\ pc = "start" /\ is_svg_input /\ ~LayerMode
    /\ \/ \E text \in EpsDocs :
              /\ exports' = Append(exports, [doc |-> "original", ok |-> TRUE])
              /\ eps_file' = text
              /\ pc' = "read"
              /\ UNCHANGED result
       \/ /\ exports' = Append(exports, [doc |-> "original", ok |-> FALSE])
          /\ Return("False")
          /\ UNCHANGED eps_file
    /\ UNCHANGED <<content, prev, calls, rewrite_log, stroke_width,
                   print_content, cut_content, output_file, merge_result,
                   svg, is_svg_input, convert_everything, has_cut_layer,
                   cut_svg, print_svg, response>>

\* read_file and the test of the start marker; sys.exit(1) when the file
\* cannot be read
ConvertRead ==
    /\ pc = "read" \/ (pc = "start" /\ ~is_svg_input)
    /\ IF eps_file = NoFile
       THEN Return("exit") /\ UNCHANGED content
       ELSE /\ content' = eps_file
            /\ IF ~StartsWithPSAdobe(eps_file) THEN Return("False")
               ELSE /\ pc' = IF HasCutContour(eps_file) THEN "confirm"
                             ELSE "rewrite"
                    /\ UNCHANGED result
    /\ UNCHANGED <<prev, calls, rewrite_log, stroke_width, print_content,
                   cut_content, output_file, merge_result, svg, eps_file,
                   is_svg_input, convert_everything, has_cut_layer, cut_svg,
                   print_svg, exports, response>>

\* the file already holds 'CutContour': input("Continue? (y/n): ")
ConvertConfirm ==
    /\ pc = "confirm"
    /\ \E answer \in Answers :
           /\ response' = answer
           /\ IF Declines(answer) THEN Return("False")
              ELSE pc' = "rewrite" /\ UNCHANGED result
    /\ UNCHANGED <<content, prev, calls, rewrite_log, stroke_width,
                   print_content, cut_content, output_file, merge_result,
                   svg, eps_file, is_svg_input, convert_everything,
                   has_cut_layer, cut_svg, print_svg, exports>>

\* [1/3], [2/3], [3/3]: the three passes
ConvertRewrite ==
    /\ pc = "rewrite"
    /\ prev' = content
    /\ content' = RewriteAll(content, stroke_width)
    /\ calls' = calls \o <<"add_header_definitions", "add_spot_color_support",
                           "replace_stroke_commands">>
    /\ rewrite_log' =
           ReplaceLog(add_spot_color_support(
               add_header_definitions(content), stroke_width))
    /\ pc' = "write"
    /\ UNCHANGED <<stroke_width, print_content, cut_content, output_file,
                   merge_result, svg, eps_file, is_svg_input,
                   convert_everything, has_cut_layer, cut_svg, print_svg,
                   exports, response, result>>

\* write_file (sys.exit(1) when the file cannot be written), then the
\* validator, whose verdict is not looked at
ConvertWrite ==
    /\ pc = "write"
    /\ \/ output_file' = content /\ Return("True")
       \/ Return("exit") /\ UNCHANGED output_file
    /\ UNCHANGED <<content, prev, calls, rewrite_log, stroke_width,
                   print_content, cut_content, merge_result, svg, eps_file,
                   is_svg_input, convert_everything, has_cut_layer, cut_svg,
                   print_svg, exports, response>>

NextSplit == Construct \/ ConvertSplit
SpecSplit == InitSplit /\ [][NextSplit]_vars

NextPipeline == ConvertRewrite \/ ConvertWrite
SpecPipeline == InitPipeline /\ [][NextPipeline]_vars

Next ==
    \/ Construct
    \/ ConvertSplit
    \/ ConvertExportCut
    \/ ConvertExportPrint
    \/ ConvertProcessCut
    \/ ConvertMerge
    \/ ConvertExportOriginal
    \/ ConvertRead
    \/ ConvertConfirm
    \/ ConvertRewrite
    \/ ConvertWrite

Spec == Init /\ [][Next]_vars

-----------------------------------------------------------------------------
(* Conversion runs: claims.                                                *)

RunTypeOK ==
    /\ pc \in {"idle", "new", "start", "export_cut", "export_print",
               "process_cut", "merge", "read", "confirm", "rewrite", "write",
               "done"}
    /\ result \in {"none", "True", "False", "exit"}
    /\ (pc = "done") = (result # "none")

\* the ids and labels of the input drawings that hold 'cut' in any case
MatchingNames == {IdCut1, IdCutout, LabelCut, LabelCUTS}

Matches(elem) == elem.id \in MatchingNames \/ elem.label \in MatchingNames
NotMatches(elem) == ~Matches(elem)

\* the top-level elements of a drawing
TopLevel(d) == d.root.children

\* the places (top-level index, nested index or 0) of the matching
\* elements below the root
MatchingPlaces(d) ==
    {<<i, 0>> : i \in {k \in 1..Len(TopLevel(d)) : Matches(TopLevel(d)[k])}}
    \cup {p \in (1..Len(TopLevel(d))) \X (1..2) :
              /\ p[2] <= Len(TopLevel(d)[p[1]].children)
              /\ Matches(TopLevel(d)[p[1]].children[p[2]])}

\* the elements below the root that neither match nor lie inside a
\* matching element
StrayPlaces(d) ==
    IF Matches(d.root) THEN {}
    ELSE {<<i, 0>> : i \in {k \in 1..Len(TopLevel(d)) :
                                NotMatches(TopLevel(d)[k])}}
         \cup {p \in (1..Len(TopLevel(d))) \X (1..2) :
                   /\ p[2] <= Len(TopLevel(d)[p[1]].children)
                   /\ NotMatches(TopLevel(d)[p[1]])
                   /\ NotMatches(TopLevel(d)[p[1]].children[p[2]])}

\* the layer split ran on a drawing in which the search reported a match
SplitDone ==
    /\ has_cut_layer
    /\ cut_svg.state = "parsed"
    /\ print_svg.state = "parsed"

\* C13: whenever the search reports a match, the cut-only drawing holds
\* every matching element of the source drawing and no non-matching
\* element other than descendants of a matching element, whatever the
\* kinds of the elements and the depth of the matching element.
CutOnlyExact ==
    SplitDone =>
        /\ Cardinality(MatchingPlaces(cut_svg))
               = Cardinality(MatchingPlaces(svg))
        /\ StrayPlaces(cut_svg) = {}

\* C14: whenever the search reports a match, the print-only drawing keeps
\* every non-matching top-level element and holds no matching element, and
\* every matching element is in the cut-only drawing.
CutPrintPartition ==
    SplitDone =>
        /\ SelectSeq(TopLevel(print_svg), NotMatches)
               = SelectSeq(TopLevel(svg), NotMatches)
        /\ MatchingPlaces(print_svg) = {}
        /\ Cardinality(MatchingPlaces(cut_svg))
               = Cardinality(MatchingPlaces(svg))

SingleLayerSteps == {"read", "confirm", "rewrite", "write"}
LayerSteps == {"export_cut", "export_print", "process_cut", "merge"}

NoOutputOnFailure ==
    /\ result # "True" => output_file = NoFile
    /\ \A i, j \in 1..Len(exports) :
           exports[i].doc = exports[j].doc => i = j
    /\ \A i \in 1..(Len(exports) - 1) : exports[i].ok
    /\ (Len(exports) > 0 /\ ~exports[Len(exports)].ok) => result = "False"

\* a layer-split run whose two exports went through and whose merge failed
FailedMergeWitness ==
    /\ result = "False"
    /\ merge_result = "False"
    /\ exports = <<[doc |-> "cut", ok |-> TRUE], [doc |-> "print", ok |-> TRUE]>>
    /\ StartsWithPSAdobe(eps_file)
    /\ output_file = NoFile

\* C17 as stated: in both modes, a document that holds 'CutContour' is
\* rewritten, and output is written, only after the confirmation was
\* asked; an answer other than 'y' ends the run in failure without output.
ConfirmInEveryMode ==
    /\ (calls # <<>> /\ HasCutContour(prev)) => response # NotAsked
    /\ response \notin {NotAsked, <<"y">>} =>
           result = "False" /\ output_file = NoFile

\* C17 amended: in single-layer mode, a document that holds 'CutContour'
\* is rewritten, and output is written, only after the confirmation was
\* asked and answered 'y' or 'Y'; any other answer ends the run in failure
\* with no rewrite and no output.  In layer-split mode the confirmation is
\* never asked and the exported cut document is rewritten whatever it
\* holds.
ConfirmSingleLayer ==
    /\ (~LayerMode /\ calls # <<>> /\ HasCutContour(prev)) =>
           response \in {<<"y">>, <<"Y">>}
    /\ response \notin {NotAsked, <<"y">>, <<"Y">>} =>
           /\ result = "False"
           /\ calls = <<>>
           /\ output_file = NoFile
    /\ response \in {<<"y">>, <<"Y">>} => result # "False"
    /\ response # NotAsked => ~LayerMode /\ HasCutContour(eps_file)
    /\ (LayerMode /\ pc = "merge") => calls # <<>> /\ response = NotAsked

\* a single-layer run on a document holding the color name, declined
DeclinedWitness ==
    /\ ~LayerMode
    /\ HasCutContour(content)
    /\ response = <<"n">>
    /\ result = "False"
    /\ calls = <<>>
    /\ output_file = NoFile

\* the line index of the insertion marker ('%%EndProlog', else
\* '%%BeginSetup'), 0 when the document has neither
MarkerLine(c) ==
    IF FirstLineWith(SplitLines(c), "%%EndProlog") # 0
    THEN FirstLineWith(SplitLines(c), "%%EndProlog")
    ELSE FirstLineWith(SplitLines(c), "%%BeginSetup")

\* the line index of the first line that opens a page, 0 when none does
FirstPageLine(c) ==
    LET L == SplitLines(c)
        s == {i \in 1..Len(L) : HasWord(L[i], "%%Page:")
                                    \/ HasWord(L[i], "%%BeginPageSetup")}
    IN  IF s = {} THEN 0 ELSE CHOOSE i \in s : \A j \in s : i <= j

MarkerBeforePage(c) ==
    /\ MarkerLine(c) # 0
    /\ FirstPageLine(c) = 0 \/ MarkerLine(c) < FirstPageLine(c)

\* the text t stands in c, atom for atom
HoldsVerbatim(c, t) ==
    \E k \in 0..(Len(c) - Len(t)) :
        /\ \A n \in 1..Min(Len(t), 4) : c[k + n] = t[n]
        /\ SubSeq(c, k + 1, k + Len(t)) = t

\* C18: for every document whose insertion marker comes before its first
\* line holding '%%Page:' or '%%BeginPageSetup', the three passes in
\* convert's order leave the injected procedure block verbatim in the
\* output: no line of it is replaced (the 'N setlinewidth' line) or
\* deleted.
BlockSurvives ==
    (calls # <<>> /\ MarkerBeforePage(prev)) =>
        /\ HoldsVerbatim(content, SpotColorCode(stroke_width))
        /\ HoldsVerbatim(content, <<NL, " ", " ", stroke_width, " ",
                                    "setlinewidth", NL>>)

\* a rewritten document with the marker before the page: its strokes were
\* rewritten and the block is in it
BlockSurvivesWitness ==
    /\ calls = <<"add_header_definitions", "add_spot_color_support",
                 "replace_stroke_commands">>
    /\ MarkerBeforePage(prev)
    /\ OccurrencesOf(prev, "S") > 0
    /\ OccurrencesOf(content, "SetHairlineStroke") > 0
    /\ HoldsVerbatim(content, SpotColorCode(stroke_width))
    /\ content # prev
====
